---------------------------- MODULE Spec2Model ----------------------------
(***************************************************************************)
(* A model of the anylog crate: the cascading log-line parser of           *)
(* src/src/parser.rs and the LogEntry / Timestamp types of                 *)
(* src/src/types.rs.                                                       *)
(*                                                                         *)
(* A line is a sequence of bytes; every element of the sequence is one     *)
(* byte, written as a one-character string, except the element BadByte,    *)
(* which stands for the byte 0xFF (never part of valid UTF-8).  A text     *)
(* (the message of a LogEntry) is a sequence of characters; ReplChar is    *)
(* U+FFFD.                                                                 *)
(*                                                                         *)
(* The ambient zone (chrono's Local) is modelled as a zone with a constant *)
(* UTC offset, chosen by the environment.                                  *)
(***************************************************************************)
EXTENDS Integers, Sequences, FiniteSets, TLC

VARIABLES
    line,       \* the bytes handed to LogEntry::parse*
    ambient,    \* UTC offset (seconds east) of the process's local zone
    nowUtc,     \* the current moment: [date |-> <<y, m, d>>, secs |-> second of day], UTC
    offset,     \* the Option<FixedOffset> argument of the parse call
    pc,         \* "ready" -> "parsed" -> "split" | "utc" | "local"
    entry,      \* the outcome of the parse call: a LogEntry, or a panic
    via,        \* which attempt! of parse_log_entry returned (0: none)
    split,      \* the outcome of component_and_message on the entry
    stamp       \* the outcome of utc_timestamp or local_timestamp on the entry

vars == <<line, ambient, nowUtc, offset, pc, entry, via, split, stamp>>

-----------------------------------------------------------------------------
(* Bytes and characters *)

BadByte == "0xFF"
ReplChar == "U+FFFD"
Tab == "\t"
Space == " "
Newline == "\n"

Digit == {"0", "1", "2", "3", "4", "5", "6", "7", "8", "9"}

DigitVal(c) ==
    CASE c = "0" -> 0 [] c = "1" -> 1 [] c = "2" -> 2 [] c = "3" -> 3
      [] c = "4" -> 4 [] c = "5" -> 5 [] c = "6" -> 6 [] c = "7" -> 7
      [] c = "8" -> 8 [] c = "9" -> 9

\* String::from_utf8_lossy: every invalid byte becomes U+FFFD, valid text is kept.
from_utf8_lossy(bytes) ==
    [i \in 1..Len(bytes) |-> IF bytes[i] = BadByte THEN ReplChar ELSE bytes[i]]

-----------------------------------------------------------------------------
(* Regular-expression building blocks.  A position is the index of the     *)
(* next byte to read; 0 means that the match has failed.                   *)

At(s, p) == IF p >= 1 /\ p <= Len(s) THEN s[p] ELSE "EOF"

\* a literal byte
Lit(s, p, c) == IF p # 0 /\ At(s, p) = c THEN p + 1 ELSE 0

\* an optional literal byte: c?
Opt(s, p, c) == IF p = 0 THEN 0 ELSE IF At(s, p) = c THEN p + 1 ELSE p

\* an alternation of literal words: (?:w1|w2|...)
Word(s, p, words) ==
    IF p # 0 /\ \E w \in words : p + Len(w) - 1 <= Len(s) /\ SubSeq(s, p, p + Len(w) - 1) = w
    THEN p + Len(CHOOSE w \in words : p + Len(w) - 1 <= Len(s) /\ SubSeq(s, p, p + Len(w) - 1) = w)
    ELSE 0

RECURSIVE RunEnd(_, _, _)
\* the position after the longest run of bytes of class cls that starts at p
RunEnd(s, p, cls) == IF At(s, p) \in cls THEN RunEnd(s, p + 1, cls) ELSE p

\* cls+ (greedy; in every pattern below the run is followed by a byte outside cls)
Plus(s, p, cls) == IF p # 0 /\ At(s, p) \in cls THEN RunEnd(s, p, cls) ELSE 0

RECURSIVE RunEndNot(_, _, _)
RunEndNot(s, p, c) == IF p <= Len(s) /\ s[p] # c THEN RunEndNot(s, p + 1, c) ELSE p

\* [^c]+ (greedy; the run is followed by c)
PlusNot(s, p, c) == IF p # 0 /\ p <= Len(s) /\ s[p] # c THEN RunEndNot(s, p, c) ELSE 0

\* [0-9]{n}
DigitsN(s, p, n) ==
    IF p # 0 /\ \A i \in p..(p + n - 1) : At(s, i) \in Digit THEN p + n ELSE 0

\* (?:\.[0-9]+)?
OptFrac(s, p) ==
    IF p = 0 THEN 0
    ELSE IF At(s, p) = "." /\ At(s, p + 1) \in Digit THEN RunEnd(s, p + 1, Digit)
    ELSE p

\* a variant of Sep: [\t\x20]+, every separator is consumed
Sep_ConsumesAll(s, p) == IF p # 0 /\ At(s, p) \in {Tab, Space} THEN RunEnd(s, p, {Tab, Space}) ELSE 0

\* [\t\x20]
Sep(s, p) == IF p # 0 /\ At(s, p) \in {Tab, Space} THEN p + 1 ELSE 0

\* (.*)$ : '.' matches any valid character other than the line feed, '$' only the
\* end of the text.
Rest(s, p) ==
    IF p # 0 /\ \A i \in p..Len(s) : s[i] \notin {Newline, BadByte} THEN Len(s) + 1 ELSE 0

NoMatch == [ok |-> FALSE, caps |-> <<>>]

Weekdays ==
    { <<"M","o","n">>, <<"T","u","e">>, <<"W","e","d">>, <<"T","h","u">>,
      <<"F","r","i">>, <<"S","a","t">>, <<"S","u","n">> }

Months ==
    { <<"J","a","n">>, <<"F","e","b">>, <<"M","a","r">>, <<"A","p","r">>,
      <<"M","a","y">>, <<"J","u","n">>, <<"J","u","l">>, <<"A","u","g">>,
      <<"S","e","p">>, <<"O","c","t">>, <<"N","o","v">>, <<"D","e","c">> }

\* (?:(?:Mon|Tue|Wed|Thu|Fri|Sat|Sun)\x20)?
OptWeekday(s, p) ==
    LET q == Lit(s, Word(s, p, Weekdays), Space)
    IN  IF p = 0 THEN 0 ELSE IF q # 0 THEN q ELSE p

-----------------------------------------------------------------------------
(* The seven patterns.  A pattern is the sequence of the elements of its   *)
(* regular expression, in the order of the source; Captures runs it on a   *)
(* line, from the first byte (^) to the last ($), and yields [ok, caps]:   *)
(* whether the whole line matches, and the captured groups in order.       *)

Elem(op, c, n, cls, words) == [op |-> op, c |-> c, n |-> n, cls |-> cls, words |-> words]

L(c) == Elem("lit", c, 0, {}, {})               \* a literal byte
O(c) == Elem("opt", c, 0, {}, {})               \* c?
W(words) == Elem("word", "", 0, {}, words)      \* (?:w1|w2|...)
OW == Elem("optweekday", "", 0, {}, {})         \* (?:(?:Mon|...|Sun)\x20)?
P(cls) == Elem("plus", "", 0, cls, {})          \* cls+
D(n) == Elem("digits", "", n, {}, {})           \* [0-9]{n}
F == Elem("optfrac", "", 0, {}, {})             \* (?:\.[0-9]+)?
N(c) == Elem("plusnot", c, 0, {}, {})           \* [^c]+
S == Elem("sep", "", 0, {}, {})                 \* [\t\x20]
A == Elem("any", "", 0, {}, {})                 \* .*
G == Elem("group", "", 0, {}, {})               \* opens a capturing group
E == Elem("end", "", 0, {}, {})                 \* closes it

\* the position after element e matched at p, 0 when it does not match
Step(e, s, p) ==
    CASE e.op = "lit" -> Lit(s, p, e.c)
      [] e.op = "opt" -> Opt(s, p, e.c)
      [] e.op = "word" -> Word(s, p, e.words)
      [] e.op = "optweekday" -> OptWeekday(s, p)
      [] e.op = "plus" -> Plus(s, p, e.cls)
      [] e.op = "plusnot" -> PlusNot(s, p, e.c)
      [] e.op = "digits" -> DigitsN(s, p, e.n)
      [] e.op = "optfrac" -> OptFrac(s, p)
      [] e.op = "sep" -> Sep(s, p)
      [] e.op = "any" -> Rest(s, p)
      [] OTHER -> p

RECURSIVE Run(_, _, _, _, _, _)
\* the pattern from its element i on, at position p, with the groups captured so far
\* and the start of the group that is open
Run(re, i, s, p, caps, open) ==
    IF p = 0 THEN NoMatch
    ELSE IF i > Len(re) THEN (IF p = Len(s) + 1 THEN [ok |-> TRUE, caps |-> caps] ELSE NoMatch)
    ELSE IF re[i].op = "group" THEN Run(re, i + 1, s, p, caps, p)
    ELSE IF re[i].op = "end" THEN Run(re, i + 1, s, p, Append(caps, SubSeq(s, open, p - 1)), 0)
    ELSE Run(re, i + 1, s, Step(re[i], s, p), caps, open)

Captures(re, s) == Run(re, 1, s, 1, <<>>, 0)

Hms == << G, D(2), E, L(":"), G, D(2), E, L(":"), G, D(2), E >>

Signs == { <<"+">>, <<"-">> }

C_LOG_RE ==
    << O("["),
       W(Weekdays), L(Space),
       G, W(Months), E,
       L(Space),
       G, P(Digit), E,
       L(Space) >>
    \o Hms \o
    << F,
       L(Space),
       G, P(Digit), E,
       O("]"),
       S,
       G, A, E >>

SHORT_LOG_RE ==
    << O("["),
       OW,
       G, W(Months), E,
       L(Space),
       G, P(Digit), E,
       L(Space) >>
    \o Hms \o
    << F,
       O("]"),
       S,
       G, A, E >>

SIMPLE_LOG_RE ==
    << O("["),
       G, P(Digit), E, L(":"),
       G, P(Digit), E, L(":"),
       G, P(Digit), E,
       O("]"),
       S,
       G, A, E >>

COMMON_LOG_RE ==
    << O("["),
       G, D(4), E, L("-"), G, D(2), E, L("-"), G, D(2), E,
       L(Space) >>
    \o Hms \o
    << L(Space),
       G, W(Signs), E,
       G, D(2), E, G, D(2), E,
       O(":"),
       O("]"),
       S,
       G, A, E >>

COMMON_ALT_LOG_RE ==
    << O("["),
       OW,
       G, W(Months), E,
       P({Space}),
       G, P(Digit), E,
       L(Space) >>
    \o Hms \o
    << F,
       L(Space),
       G, D(4), E,
       O("]"),
       S,
       G, A, E >>

COMMON_ALT2_LOG_RE ==
    << O("["),
       OW,
       G, W(Months), E,
       P({Space}),
       G, P(Digit), E, O(","),
       L(Space),
       G, D(4), E,
       L(Space) >>
    \o Hms \o
    << F,
       O("]"),
       S,
       G, A, E >>

UE4_LOG_RE ==
    << L("["),
       G, P(Digit), E, L("."), G, P(Digit), E, L("."), G, P(Digit), E,
       L("-"),
       G, P(Digit), E, L("."), G, P(Digit), E, L("."), G, P(Digit), E,
       L(":"),
       P(Digit),
       L("]"),
       L("["), P({Space}), P(Digit), L("]"),
       G, A, E >>

-----------------------------------------------------------------------------
(* str::parse::<u32>() / ::<i32>() on a run of ASCII digits, then unwrap(). *)
(* The result is the number, or -1 when the conversion fails (the unwrap   *)
(* panics).  A number of ten significant digits that fits is held as 10^9: *)
(* the callers only compare it with calendar ranges far below that.        *)

RECURSIVE StripZeros(_)
StripZeros(d) == IF Len(d) > 1 /\ d[1] = "0" THEN StripZeros(Tail(d)) ELSE d

RECURSIVE Value(_)
Value(d) == IF d = <<>> THEN 0 ELSE 10 * Value(SubSeq(d, 1, Len(d) - 1)) + DigitVal(d[Len(d)])

RECURSIVE LexLeq(_, _)
\* a <= b for two digit strings of the same length
LexLeq(a, b) ==
    IF a = <<>> THEN TRUE
    ELSE IF DigitVal(a[1]) # DigitVal(b[1]) THEN DigitVal(a[1]) < DigitVal(b[1])
    ELSE LexLeq(Tail(a), Tail(b))

ParseBounded(d, max) ==
    LET sig == StripZeros(d)
    IN  IF Len(sig) < Len(max) THEN Value(sig)
        ELSE IF Len(sig) = Len(max) /\ LexLeq(sig, max) THEN 1000000000
        ELSE -1

parse_u32(d) == ParseBounded(d, <<"4","2","9","4","9","6","7","2","9","5">>)

parse_i32(d) == ParseBounded(d, <<"2","1","4","7","4","8","3","6","4","7">>)

-----------------------------------------------------------------------------
(* chrono: calendar dates, times of day, zones with a fixed offset *)

IsLeap(y) == y % 4 = 0 /\ (y % 100 # 0 \/ y % 400 = 0)

DaysInMonth(y, m) ==
    IF m = 2 THEN (IF IsLeap(y) THEN 29 ELSE 28)
    ELSE IF m \in {4, 6, 9, 11} THEN 30 ELSE 31

\* NaiveDate::from_ymd_opt(y, m, d).is_some(), for y >= 0
from_ymd_opt(y, m, d) ==
    y <= 262143 /\ m >= 1 /\ m <= 12 /\ d >= 1 /\ d <= DaysInMonth(y, m)

\* NaiveTime::from_hms_opt(h, m, s).is_some()
from_hms_opt(h, m, s) == h < 24 /\ m < 60 /\ s < 60

NextDay(date) ==
    LET y == date[1] m == date[2] d == date[3]
    IN  IF d < DaysInMonth(y, m) THEN <<y, m, d + 1>>
        ELSE IF m < 12 THEN <<y, m + 1, 1>> ELSE <<y + 1, 1, 1>>

PrevDay(date) ==
    LET y == date[1] m == date[2] d == date[3]
    IN  IF d > 1 THEN <<y, m, d - 1>>
        ELSE IF m > 1 THEN <<y, m - 1, DaysInMonth(y, m - 1)>> ELSE <<y - 1, 12, 31>>

\* a naive date-time moved by delta seconds, -86400 < delta < 86400
Shift(dt, delta) ==
    LET t == dt.secs + delta
    IN  IF t < 0 THEN [date |-> PrevDay(dt.date), secs |-> t + 86400]
        ELSE IF t >= 86400 THEN [date |-> NextDay(dt.date), secs |-> t - 86400]
        ELSE [date |-> dt.date, secs |-> t]

\* Option<FixedOffset>
NoOffset == [some |-> FALSE, secs |-> 0]
SomeOffset(secs) == [some |-> TRUE, secs |-> secs]

\* A DateTime<Tz>: the instant as a naive UTC date-time, and the offset of the zone.
\* tz.ymd(y, m, d).and_hms(h, mi, s) for valid fields: the wall clock is read in the zone.
DateTimeIn(kind, off, y, m, d, h, mi, s) ==
    LET utc == Shift([date |-> <<y, m, d>>, secs |-> h * 3600 + mi * 60 + s], 0 - off)
    IN  [kind |-> kind, date |-> utc.date, secs |-> utc.secs, off |-> off]

NoTimestamp == [kind |-> "None", date |-> <<0, 0, 0>>, secs |-> 0, off |-> 0]

\* The wall-clock reading of a timestamp in its own zone
WallClock(ts) == Shift([date |-> ts.date, secs |-> ts.secs], ts.off)

-----------------------------------------------------------------------------
(* now() and today() *)

\* now(): Local::now(), the current moment read in the ambient zone
now == Shift(nowUtc, ambient)

\* today(offset): without an offset the ambient zone's date; with one, Utc::today()
\* relabelled with the offset (Date::with_timezone keeps the date it holds)
today(off) == IF off.some THEN nowUtc.date ELSE Shift(nowUtc, ambient).date

-----------------------------------------------------------------------------
(* Timestamp::to_utc and Timestamp::to_local.  DateTime::with_timezone keeps the *)
(* instant (the naive UTC date-time) and takes the offset of the target zone.    *)

\* a variant of to_utc: the wall-clock reading is relabelled as UTC
to_utc_KeepsWallClock(ts) ==
    [kind |-> "Utc", date |-> WallClock(ts).date, secs |-> WallClock(ts).secs, off |-> 0]

\* Timestamp::to_utc: a DateTime<Utc>
to_utc(ts) ==
    IF ts.kind = "Utc" THEN ts
    ELSE [kind |-> "Utc", date |-> ts.date, secs |-> ts.secs, off |-> 0]

\* Timestamp::to_local: a DateTime<Local>
to_local(ts) ==
    IF ts.kind = "Local" THEN ts
    ELSE [kind |-> "Local", date |-> ts.date, secs |-> ts.secs, off |-> ambient]

-----------------------------------------------------------------------------
(* LogEntry constructors (types.rs) and the outcomes of a pattern function: *)
(* a pattern function returns None, returns Some(entry), or panics.         *)

None == [tag |-> "None", timestamp |-> NoTimestamp, message |-> <<>>]
Panic == [tag |-> "Panic", timestamp |-> NoTimestamp, message |-> <<>>]
Some(e) == [tag |-> "Some", timestamp |-> e.timestamp, message |-> e.message]

from_utc_time(ts, message) == [timestamp |-> ts, message |-> from_utf8_lossy(message)]
from_local_time(ts, message) == [timestamp |-> ts, message |-> from_utf8_lossy(message)]
from_fixed_time(ts, message) == [timestamp |-> ts, message |-> from_utf8_lossy(message)]
\* a variant of from_message_only: the first byte is taken for a timestamp and dropped
from_message_only_Stripped(message) ==
    [timestamp |-> NoTimestamp,
     message |-> from_utf8_lossy(IF message = <<>> THEN message ELSE Tail(message))]

from_message_only(message) == [timestamp |-> NoTimestamp, message |-> from_utf8_lossy(message)]

\* a variant of log_entry_from_local_time!: the override is ignored, the ambient zone
\* is used throughout
log_entry_from_local_time_AmbientOnly(off, y, m, d, hh, mm, ss, msg) ==
    IF ~from_ymd_opt(y, m, d) THEN Panic
    ELSE IF ~from_hms_opt(hh, mm, ss) THEN None
    ELSE Some(from_local_time(DateTimeIn("Local", ambient, y, m, d, hh, mm, ss), msg))

\* log_entry_from_local_time!: ymd() panics on a date that does not exist,
\* and_hms_opt() yields None on a time of day that does not exist.
log_entry_from_local_time(off, y, m, d, hh, mm, ss, msg) ==
    IF ~from_ymd_opt(y, m, d) THEN Panic
    ELSE IF ~from_hms_opt(hh, mm, ss) THEN None
    ELSE IF off.some
         THEN Some(from_fixed_time(DateTimeIn("Fixed", off.secs, y, m, d, hh, mm, ss), msg))
         ELSE Some(from_local_time(DateTimeIn("Local", ambient, y, m, d, hh, mm, ss), msg))

get_month(bytes) ==
    CASE bytes = <<"J","a","n">> -> 1 [] bytes = <<"F","e","b">> -> 2
      [] bytes = <<"M","a","r">> -> 3 [] bytes = <<"A","p","r">> -> 4
      [] bytes = <<"M","a","y">> -> 5 [] bytes = <<"J","u","n">> -> 6
      [] bytes = <<"J","u","l">> -> 7 [] bytes = <<"A","u","g">> -> 8
      [] bytes = <<"S","e","p">> -> 9 [] bytes = <<"O","c","t">> -> 10
      [] bytes = <<"N","o","v">> -> 11 [] bytes = <<"D","e","c">> -> 12
      [] OTHER -> -1

\* some unwrap() of the field conversions panics
AnyFailed(fields) == \E i \in 1..Len(fields) : fields[i] = -1

-----------------------------------------------------------------------------
(* The seven pattern functions (parser.rs).  Each is split in two: the     *)
(* match of the regular expression, and what the function does with the    *)
(* captures.                                                               *)

\* the fields converted with unwrap(), then log_entry_from_local_time!
local_entry(off, year, month, day, h, m, s, msg) ==
    IF AnyFailed(<<year, month, day, h, m, s>>) THEN Panic
    ELSE log_entry_from_local_time(off, year, month, day, h, m, s, msg)

c_log_entry(re, off) ==
    IF ~re.ok THEN None
    ELSE local_entry(off, parse_i32(re.caps[6]), get_month(re.caps[1]), parse_u32(re.caps[2]),
                     parse_u32(re.caps[3]), parse_u32(re.caps[4]), parse_u32(re.caps[5]),
                     re.caps[7])

parse_c_log_entry(bytes, off) == c_log_entry(Captures(C_LOG_RE, bytes), off)

short_log_entry(re, off) ==
    IF ~re.ok THEN None
    ELSE local_entry(off, now.date[1], get_month(re.caps[1]), parse_u32(re.caps[2]),
                     parse_u32(re.caps[3]), parse_u32(re.caps[4]), parse_u32(re.caps[5]),
                     re.caps[6])

parse_short_log_entry(bytes, off) == short_log_entry(Captures(SHORT_LOG_RE, bytes), off)

simple_log_entry(re, off) ==
    IF ~re.ok THEN None
    ELSE local_entry(off, today(off)[1], today(off)[2], today(off)[3],
                     parse_u32(re.caps[1]), parse_u32(re.caps[2]), parse_u32(re.caps[3]),
                     re.caps[4])

parse_simple_log_entry(bytes, off) == simple_log_entry(Captures(SIMPLE_LOG_RE, bytes), off)

\* the argument of FixedOffset::east in parse_common_log_entry, in seconds
CommonOffsetSeconds(sign, hh, mm) ==
    ((IF sign = <<"+">> THEN 1 ELSE -1) * hh * 60 + mm) * 60

fixed_entry(east, year, month, day, h, m, s, msg) ==
    \* FixedOffset::east panics outside (-86400, 86400)
    IF east <= -86400 \/ east >= 86400 THEN Panic
    \* ymd() and and_hms() panic on fields that do not exist
    ELSE IF ~from_ymd_opt(year, month, day) \/ ~from_hms_opt(h, m, s) THEN Panic
    ELSE Some(from_fixed_time(DateTimeIn("Fixed", east, year, month, day, h, m, s), msg))

common_log_entry(re, off) ==
    IF ~re.ok THEN None
    ELSE fixed_entry(CommonOffsetSeconds(re.caps[7], parse_i32(re.caps[8]), parse_i32(re.caps[9])),
                     parse_i32(re.caps[1]), parse_u32(re.caps[2]), parse_u32(re.caps[3]),
                     parse_u32(re.caps[4]), parse_u32(re.caps[5]), parse_u32(re.caps[6]),
                     re.caps[10])

parse_common_log_entry(bytes, off) == common_log_entry(Captures(COMMON_LOG_RE, bytes), off)

common_alt_log_entry(re, off) ==
    IF ~re.ok THEN None
    ELSE local_entry(off, parse_i32(re.caps[6]), get_month(re.caps[1]), parse_u32(re.caps[2]),
                     parse_u32(re.caps[3]), parse_u32(re.caps[4]), parse_u32(re.caps[5]),
                     re.caps[7])

parse_common_alt_log_entry(bytes, off) ==
    common_alt_log_entry(Captures(COMMON_ALT_LOG_RE, bytes), off)

common_alt2_log_entry(re, off) ==
    IF ~re.ok THEN None
    ELSE local_entry(off, parse_i32(re.caps[3]), get_month(re.caps[1]), parse_u32(re.caps[2]),
                     parse_u32(re.caps[4]), parse_u32(re.caps[5]), parse_u32(re.caps[6]),
                     re.caps[7])

parse_common_alt2_log_entry(bytes, off) ==
    common_alt2_log_entry(Captures(COMMON_ALT2_LOG_RE, bytes), off)

utc_entry(year, month, day, h, m, s, msg) ==
    IF AnyFailed(<<year, month, day, h, m, s>>) THEN Panic
    \* Utc.ymd() and and_hms() panic on fields that do not exist
    ELSE IF ~from_ymd_opt(year, month, day) \/ ~from_hms_opt(h, m, s) THEN Panic
    ELSE Some(from_utc_time(DateTimeIn("Utc", 0, year, month, day, h, m, s), msg))

\* a variant of parse_ue4_log_entry: the fields are read in the caller's local zone,
\* as the zone-less patterns do
ue4_log_entry_Local(re, off) ==
    IF ~re.ok THEN None
    ELSE local_entry(off, parse_i32(re.caps[1]), parse_u32(re.caps[2]), parse_u32(re.caps[3]),
                     parse_u32(re.caps[4]), parse_u32(re.caps[5]), parse_u32(re.caps[6]),
                     re.caps[7])

ue4_log_entry(re, off) ==
    IF ~re.ok THEN None
    ELSE utc_entry(parse_i32(re.caps[1]), parse_u32(re.caps[2]), parse_u32(re.caps[3]),
                   parse_u32(re.caps[4]), parse_u32(re.caps[5]), parse_u32(re.caps[6]),
                   re.caps[7])

parse_ue4_log_entry(bytes, off) == ue4_log_entry(Captures(UE4_LOG_RE, bytes), off)

\* the pattern functions by their number in the cascade
Pattern(i, bytes, off) ==
    CASE i = 1 -> parse_c_log_entry(bytes, off)
      [] i = 2 -> parse_short_log_entry(bytes, off)
      [] i = 3 -> parse_simple_log_entry(bytes, off)
      [] i = 4 -> parse_common_log_entry(bytes, off)
      [] i = 5 -> parse_common_alt_log_entry(bytes, off)
      [] i = 6 -> parse_common_alt2_log_entry(bytes, off)
      [] i = 7 -> parse_ue4_log_entry(bytes, off)

\* whether the line has the structure of pattern i (its regular expression matches)
Matches(i, bytes) ==
    CASE i = 1 -> Captures(C_LOG_RE, bytes).ok
      [] i = 2 -> Captures(SHORT_LOG_RE, bytes).ok
      [] i = 3 -> Captures(SIMPLE_LOG_RE, bytes).ok
      [] i = 4 -> Captures(COMMON_LOG_RE, bytes).ok
      [] i = 5 -> Captures(COMMON_ALT_LOG_RE, bytes).ok
      [] i = 6 -> Captures(COMMON_ALT2_LOG_RE, bytes).ok
      [] i = 7 -> Captures(UE4_LOG_RE, bytes).ok

\* a variant of AttemptOrder: the Short pattern is tried before the C-style pattern
AttemptOrder_ShortFirst == <<2, 1, 3, 4, 5, 6, 7>>

\* the order of the attempt! calls of parse_log_entry
AttemptOrder == <<1, 2, 3, 4, 5, 6, 7>>

RECURSIVE Attempt(_, _, _)

\* attempt!: with the value rv of the k-th function, return it (a panic unwinds the
\* same way), or go on when it is None
attempt(rv, k, bytes, off) ==
    IF rv.tag = "None" THEN Attempt(k + 1, bytes, off)
    ELSE [out |-> rv, via |-> AttemptOrder[k]]

\* attempt! number k and the ones after it, then the final None
Attempt(k, bytes, off) ==
    IF k > Len(AttemptOrder) THEN [out |-> None, via |-> 0]
    ELSE attempt(Pattern(AttemptOrder[k], bytes, off), k, bytes, off)

parse_log_entry(bytes, off) == Attempt(1, bytes, off)

\* unwrap_or_else(|| LogEntry::from_message_only(bytes)) on the value of parse_log_entry;
\* a panic unwinds through it
unwrap_or_message(rv, bytes) ==
    IF rv.tag = "Panic" THEN [status |-> "panic", timestamp |-> NoTimestamp, message |-> <<>>]
    ELSE IF rv.tag = "Some"
         THEN [status |-> "entry", timestamp |-> rv.timestamp, message |-> rv.message]
         ELSE [status |-> "entry", timestamp |-> from_message_only(bytes).timestamp,
               message |-> from_message_only(bytes).message]

\* LogEntry::parse_with_local_timezone
LogEntryOf(bytes, off) == unwrap_or_message(parse_log_entry(bytes, off).out, bytes)

\* Option<DateTime<Tz>>
NoStamp == [some |-> FALSE, dt |-> NoTimestamp]

\* LogEntry::utc_timestamp: self.timestamp.as_ref().map(|x| x.to_utc())
utc_timestamp(e) ==
    IF e.timestamp = NoTimestamp THEN NoStamp ELSE [some |-> TRUE, dt |-> to_utc(e.timestamp)]

\* LogEntry::local_timestamp: self.timestamp.as_ref().map(|x| x.to_local())
local_timestamp(e) ==
    IF e.timestamp = NoTimestamp THEN NoStamp ELSE [some |-> TRUE, dt |-> to_local(e.timestamp)]

-----------------------------------------------------------------------------
\* component_and_message: COMPONENT_RE, one or more non-colons, a colon, an optional
\* space and the rest, where the rest holds no line feed

COMPONENT_RE == << G, N(":"), E, L(":"), O(Space), G, A, E >>

component_and_message(message) ==
    LET re == Captures(COMPONENT_RE, message)
    IN  IF re.ok THEN [some |-> TRUE, component |-> re.caps[1], message |-> re.caps[2]]
        ELSE [some |-> FALSE, component |-> <<>>, message |-> message]

-----------------------------------------------------------------------------
(* The lines, the moments and the zones the model is run on *)

MaxPad == 2     \* at most this many spaces between the month and the day
MaxSep == 2     \* at most this many tabs/spaces between the timestamp and the message

Spaces(n) == [i \in 1..n |-> Space]

Cat3(a, b, c) == a \o b \o c

Tue == <<"T","u","e">>
Feb == <<"F","e","b">>
Nov == <<"N","o","v">>

LongRun == <<"9","9","9","9","9","9","9","9","9","9","9">>

\* opening and closing bracket of the timestamp
Brackets == { << <<>>, <<>> >>, << <<"[">>, <<"]">> >> }

\* the separators before the message: none, or a tab or space followed by spaces
SepRuns == { <<>> } \cup { <<c>> \o Spaces(n) : c \in {Tab, Space}, n \in 0..(MaxSep - 1) }

DayTokens == { <<"2","1">>, <<"2","9">>, <<"9","9">>, LongRun }

TimeTokens == { <<"0","0",":","3","0",":","0","5">>, <<"9","9",":","9","9",":","9","9">> }

FracTokens == { <<>>, <<".","5">> }

YearTokens == { <<"2","0","1","6">>, <<"2","0","1","7">>,
                <<"2","1","4","7","4","8","3","6","4","8">> }

\* [Wkd ]Mon D HH:MM:SS[.frac][ YYYY] : the C-style, Short and Common-Alt layouts
MonthDayTimePrefixes ==
    { Cat3(br[1] \o wd \o mon \o Spaces(pad), day \o <<Space>> \o time \o frac, yr \o br[2]) :
        br \in Brackets, wd \in { <<>>, Tue \o <<Space>> }, mon \in {Feb},
        pad \in 1..MaxPad, day \in DayTokens, time \in TimeTokens, frac \in FracTokens,
        yr \in { <<>> } \cup { <<Space>> \o y : y \in YearTokens } }

\* Mon D[,] YYYY HH:MM:SS : the Common-Alt2 layout
MonthDayYearPrefixes ==
    { Cat3(mon \o Spaces(pad) \o day, comma \o <<Space>> \o yr, <<Space>> \o time) :
        mon \in {Feb, Nov}, pad \in 1..MaxPad, day \in DayTokens \ {LongRun},
        comma \in { <<>>, <<",">> },
        yr \in { <<"2","0","1","6">>, <<"2","0","1","7">> }, time \in TimeTokens }

\* HH:MM:SS : the Simple layout
TimeOnlyPrefixes ==
    { Cat3(br[1], h \o <<":","0","7",":">> \o s, br[2]) :
        br \in Brackets, h \in { <<"2","2">>, <<"7">>, <<"9","9">>, LongRun },
        s \in { <<"1","0">>, <<"6","0">> } }

\* YYYY-MM-DD HH:MM:SS sHHMM[:] : the Common layout
IsoPrefixes ==
    { Cat3(br[1] \o date \o <<Space>> \o time, <<Space>> \o zone \o colon, br[2]) :
        br \in Brackets,
        date \in { <<"2","0","1","5","-","0","5","-","1","3">>,
                   <<"2","0","1","5","-","1","3","-","1","3">>,
                   <<"2","0","1","7","-","0","1","-","0","1">> },
        time \in { <<"1","7",":","3","9",":","1","6">>, <<"0","0",":","3","0",":","0","5">>,
                   <<"9","9",":","9","9",":","9","9">> },
        zone \in { <<"+","0","2","0","0">>, <<"-","0","2","0","0">>,
                   <<"+","0","5","3","0">>, <<"-","0","1","3","0">>,
                   <<"+","9","9","9","9">> },
        colon \in { <<>>, <<":">> } }

\* [Y.M.D-H.M.S:frac][ N] : the Engine-style layout
EnginePrefixes ==
    { Cat3(<<"[">> \o date \o <<"-">> \o time, <<":","5","4","2","]","[">>,
           Spaces(pad) \o <<"0","]">>) :
        date \in { <<"2","0","1","8",".","1","0",".","2","9">>,
                   <<"2","0","1","8",".","2",".","3","0">> },
        time \in { <<"1","6",".","5","6",".","3","7">>, <<"9","9",".","5","6",".","3","7">> },
        pad \in 0..MaxPad }

\* messages, also the lines without any timestamp
Messages ==
    { <<>>, <<"x">>, <<"a",":"," ","b">>, <<"a",":","b">>, <<"a",":"," "," ","b">>,
      <<":","b">>, <<"a"," ","b">>, <<"a",":","b",":","c">>, <<"a",":"," ","b",Newline,"c">>,
      <<"a",Newline,"b",":","c">>, <<"x",BadByte>>, <<"a",":",BadByte>>, <<"x",Newline>> }

Prefixes ==
    MonthDayTimePrefixes \cup MonthDayYearPrefixes \cup TimeOnlyPrefixes
        \cup IsoPrefixes \cup EnginePrefixes

\* one well-formed prefix of every layout, to carry every message
BasePrefixes ==
    { Tue \o <<Space>> \o Nov \o <<Space,"2","1",Space,"0","0",":","3","0",":","0","5",Space,"2","0","1","7">>,
      Nov \o <<Space,"2","1",Space,"0","0",":","3","0",":","0","5">>,
      Nov \o <<Space,Space,"2","1",Space,"0","0",":","3","0",":","0","5",Space,"2","0","1","7">>,
      Nov \o <<Space,"2","1",",",Space,"2","0","1","7",Space,"0","0",":","3","0",":","0","5">>,
      <<"2","2",":","0","7",":","1","0">>,
      <<"2","0","1","5","-","0","5","-","1","3",Space,"1","7",":","3","9",":","1","6",Space,"+","0","2","0","0",":">>,
      <<"[","2","0","1","8",".","1","0",".","2","9","-","1","6",".","5","6",".","3","7",":","5","4","2","]","[",Space,Space,"0","]">> }

Lines ==
    { p \o s \o <<"x">> : p \in Prefixes, s \in SepRuns }
        \cup { p \o s \o m : p \in BasePrefixes, s \in { <<>>, <<Space>> }, m \in Messages }
        \cup Messages

\* the moments: half an hour before the UTC year 2017 begins, and a midday in June
Moments ==
    { [date |-> <<2016, 12, 31>>, secs |-> 84600], [date |-> <<2017, 6, 15>>, secs |-> 43200] }

\* the ambient zones: UTC-5 and UTC+2
AmbientZones == { -18000, 7200 }

\* the overrides a caller passes: none, UTC+14, UTC-12
OffsetArgs == { NoOffset, SomeOffset(50400), SomeOffset(-43200) }

-----------------------------------------------------------------------------
(* The state machine: one parse call on a line, then component_and_message *)

NoEntry == [status |-> "none", timestamp |-> NoTimestamp, message |-> <<>>]
NoSplit == [some |-> FALSE, component |-> <<>>, message |-> <<>>]

Init ==
    /\ line \in Lines
    /\ ambient \in AmbientZones
    /\ nowUtc \in Moments
    /\ offset = NoOffset
    /\ pc = "ready"
    /\ entry = NoEntry
    /\ via = 0
    /\ split = NoSplit
    /\ stamp = NoStamp

\* the call returns, or panics, with the value r of parse_log_entry
Called(r) ==
    /\ entry' = unwrap_or_message(r.out, line)
    /\ via' = r.via

\* LogEntry::parse(bytes)
Parse ==
    /\ pc = "ready"
    /\ offset' = NoOffset
    /\ Called(parse_log_entry(line, NoOffset))
    /\ pc' = "parsed"
    /\ UNCHANGED <<line, ambient, nowUtc, split, stamp>>

\* LogEntry::parse_with_local_timezone(bytes, offset)
ParseWithLocalTimezone ==
    /\ pc = "ready"
    /\ \E o \in OffsetArgs :
        /\ offset' = o
        /\ Called(parse_log_entry(line, o))
    /\ pc' = "parsed"
    /\ UNCHANGED <<line, ambient, nowUtc, split, stamp>>

\* LogEntry::component_and_message(&self)
ComponentAndMessage ==
    /\ pc = "parsed"
    /\ entry.status = "entry"
    /\ split' = component_and_message(entry.message)
    /\ pc' = "split"
    /\ UNCHANGED <<line, ambient, nowUtc, offset, entry, via, stamp>>

\* LogEntry::utc_timestamp(&self)
UtcTimestamp ==
    /\ pc = "parsed"
    /\ entry.status = "entry"
    /\ stamp' = utc_timestamp(entry)
    /\ pc' = "utc"
    /\ UNCHANGED <<line, ambient, nowUtc, offset, entry, via, split>>

\* LogEntry::local_timestamp(&self)
LocalTimestamp ==
    /\ pc = "parsed"
    /\ entry.status = "entry"
    /\ stamp' = local_timestamp(entry)
    /\ pc' = "local"
    /\ UNCHANGED <<line, ambient, nowUtc, offset, entry, via, split>>

Next ==
    \/ Parse
    \/ ParseWithLocalTimezone
    \/ ComponentAndMessage
    \/ UtcTimestamp
    \/ LocalTimestamp

Spec == Init /\ [][Next]_vars

-----------------------------------------------------------------------------
(* Vocabulary of the properties *)

\* the parse call has returned a LogEntry (no later operation changes the entry)
Returned == pc = "parsed" /\ entry.status = "entry"
HasTimestamp == Returned /\ entry.timestamp # NoTimestamp

\* the captured groups of pattern i on the line, and the last of them
CapsOf(i, bytes) ==
    CASE i = 1 -> Captures(C_LOG_RE, bytes).caps
      [] i = 2 -> Captures(SHORT_LOG_RE, bytes).caps
      [] i = 3 -> Captures(SIMPLE_LOG_RE, bytes).caps
      [] i = 4 -> Captures(COMMON_LOG_RE, bytes).caps
      [] i = 5 -> Captures(COMMON_ALT_LOG_RE, bytes).caps
      [] i = 6 -> Captures(COMMON_ALT2_LOG_RE, bytes).caps
      [] i = 7 -> Captures(UE4_LOG_RE, bytes).caps

LastCap(i, bytes) == CapsOf(i, bytes)[Len(CapsOf(i, bytes))]

\* the number a digit run denotes; runs too long to denote a calendar field are
\* held as 10^9
Num(d) == IF Len(StripZeros(d)) < 10 THEN Value(StripZeros(d)) ELSE 1000000000

\* the zone the caller chose: the override when there is one, else the ambient zone
ChosenZone(off) == IF off.some THEN off.secs ELSE ambient

\* <<year, month, day, hour, minute, second>> of a line that has the structure of
\* pattern i, as its text gives them; inferred stands for the date of a line that
\* carries no year (pattern 2) or no date (pattern 3)
Fields(i, bytes, inferred) ==
    LET c == CapsOf(i, bytes)
    IN  CASE i = 1 -> <<Num(c[6]), get_month(c[1]), Num(c[2]), Num(c[3]), Num(c[4]), Num(c[5])>>
          [] i = 2 -> <<inferred[1], get_month(c[1]), Num(c[2]), Num(c[3]), Num(c[4]), Num(c[5])>>
          [] i = 3 -> <<inferred[1], inferred[2], inferred[3], Num(c[1]), Num(c[2]), Num(c[3])>>
          [] i = 4 -> <<Num(c[1]), Num(c[2]), Num(c[3]), Num(c[4]), Num(c[5]), Num(c[6])>>
          [] i = 5 -> <<Num(c[6]), get_month(c[1]), Num(c[2]), Num(c[3]), Num(c[4]), Num(c[5])>>
          [] i = 6 -> <<Num(c[3]), get_month(c[1]), Num(c[2]), Num(c[4]), Num(c[5]), Num(c[6])>>
          [] i = 7 -> <<Num(c[1]), Num(c[2]), Num(c[3]), Num(c[4]), Num(c[5]), Num(c[6])>>

\* the fields pattern function i extracts: the year of now() for pattern 2, the date
\* of today(offset) for pattern 3
ExtractedFields(i, bytes, off) ==
    Fields(i, bytes, IF i = 2 THEN now.date ELSE today(off))

RealDate(f) == from_ymd_opt(f[1], f[2], f[3])
RealTime(f) == from_hms_opt(f[4], f[5], f[6])

PatternNumbers == 1..7

-----------------------------------------------------------------------------
(* C1..C3: totality and the handling of fields that are no date or time *)

\* C1 (as claimed): every parse call, on every line and with every override, returns a
\* LogEntry; it never panics.
C1_Totality == pc # "ready" => entry.status = "entry"

\* C2 (as claimed): whenever the line has the structure of a pattern and the fields it
\* carries are not a real date and time, that pattern function returns None (a
\* non-match); it does not abort the parse.
C2_InvalidFieldsAreNonMatch ==
    pc # "ready" =>
        \A i \in PatternNumbers :
            (Matches(i, line) /\ ~(RealDate(ExtractedFields(i, line, offset))
                                   /\ RealTime(ExtractedFields(i, line, offset))))
                => Pattern(i, line, offset).tag = "None"

\* a C-style line whose date exists and whose time of day does not
CStyleBadTime(bytes) ==
    /\ Matches(1, bytes)
    /\ RealDate(ExtractedFields(1, bytes, NoOffset))
    /\ ~RealTime(ExtractedFields(1, bytes, NoOffset))

\* C3 (as claimed): on a C-style line with a real date and a time of day out of range,
\* parse_c_log_entry returns None and the parse call returns a LogEntry without a
\* timestamp whose message is the whole line.
C3_BadTimeFallsThrough ==
    (pc # "ready" /\ CStyleBadTime(line)) =>
        /\ parse_c_log_entry(line, offset).tag = "None"
        /\ entry.status = "entry"
        /\ entry.timestamp = NoTimestamp
        /\ entry.message = from_utf8_lossy(line)

-----------------------------------------------------------------------------
(* C4..C6: the outcome of the cascade *)

\* C4: a returned LogEntry has no timestamp exactly when none of the seven pattern
\* functions yields a result for the line, and then its message is the whole line
\* (decoded), not a remainder of it.
C4_NoTimestampIffNoPattern ==
    Returned =>
        /\ (entry.timestamp = NoTimestamp)
              <=> (\A i \in PatternNumbers : Pattern(i, line, offset).tag # "Some")
        /\ entry.timestamp = NoTimestamp => entry.message = from_utf8_lossy(line)

\* C4's case: a line that has the structure of a pattern and yet gets no timestamp
C4_Witness ==
    /\ Returned
    /\ entry.timestamp = NoTimestamp
    /\ \E i \in PatternNumbers : Matches(i, line)
    /\ entry.message = from_utf8_lossy(line)

\* the lowest-numbered pattern whose structure the line has
LowestMatching(bytes) ==
    CHOOSE i \in PatternNumbers :
        Matches(i, bytes) /\ \A j \in PatternNumbers : Matches(j, bytes) => i <= j

\* C5: a timestamp always comes from the lowest-numbered pattern whose structure the
\* line has; a line with both the C-style and the Short structure resolves via C-style,
\* with the year of the text, and the year token is not left in the message.
C5_PriorityDeterminism ==
    HasTimestamp =>
        /\ Matches(via, line)
        /\ via = LowestMatching(line)
        /\ (Matches(1, line) /\ Matches(2, line)) =>
              /\ via = 1
              /\ WallClock(entry.timestamp).date[1] = Num(Captures(C_LOG_RE, line).caps[6])
              /\ entry.message = from_utf8_lossy(Captures(C_LOG_RE, line).caps[7])
              /\ entry.message # from_utf8_lossy(Captures(SHORT_LOG_RE, line).caps[6])

\* C5's case: a resolved line that has the C-style, the Short and the Common-Alt structure
C5_Witness ==
    /\ HasTimestamp
    /\ Matches(1, line) /\ Matches(2, line) /\ Matches(5, line)
    /\ via = 1

-----------------------------------------------------------------------------
(* C7..C10: the offset of the Common pattern, the message, the component, *)
(* and the inferred date                                                  *)

\* the offset the text sHHMM denotes, in seconds: s x (HH x 60 + MM) minutes
DenotedOffsetSeconds(sign, hh, mm) ==
    (IF sign = <<"+">> THEN 1 ELSE -1) * (hh * 60 + mm) * 60

\* C7 (as claimed): a timestamp of the Common pattern has the offset its text denotes,
\* for both signs and every minute part, and its UTC instant is the wall-clock time of
\* the text minus that offset.
C7_CommonOffset ==
    (HasTimestamp /\ via = 4) =>
        LET c == Captures(COMMON_LOG_RE, line).caps
            east == DenotedOffsetSeconds(c[7], Num(c[8]), Num(c[9]))
            wall == [date |-> <<Num(c[1]), Num(c[2]), Num(c[3])>>,
                     secs |-> Num(c[4]) * 3600 + Num(c[5]) * 60 + Num(c[6])]
        IN  /\ entry.timestamp.off = east
            /\ [date |-> entry.timestamp.date, secs |-> entry.timestamp.secs]
                   = Shift(wall, 0 - east)

\* C8: when a pattern produced the timestamp, the message is the pattern's final
\* captured group, and the line is a timestamp prefix, then exactly one tab or space
\* (patterns 1 to 6; none for pattern 7), then the message: the prefix is what the
\* pattern matches with an empty message, and it does not end in a separator itself.
C8_MessageIntegrity ==
    HasTimestamp =>
        /\ entry.message = from_utf8_lossy(LastCap(via, line))
        /\ \E k \in 1..Len(line) :
              /\ entry.message = SubSeq(line, k + 1, Len(line))
              /\ Matches(via, SubSeq(line, 1, k))
              /\ LastCap(via, SubSeq(line, 1, k)) = <<>>
              /\ via \in 1..6 => (line[k] \in {Tab, Space} /\ line[k - 1] \notin {Tab, Space})
              /\ via = 7 => line[k] = "]"

\* C8's case: a line with more than one separator, the extra one kept in the message
C8_Witness ==
    /\ HasTimestamp
    /\ via \in 1..6
    /\ entry.message # <<>>
    /\ entry.message[1] \in {Tab, Space}

\* C9 (as claimed): a message that is a non-empty token without colon, a colon, at most
\* one space that is dropped, and a rest splits into (Some(token), rest); every other
\* message splits into (None, message).
C9_ComponentSplit ==
    pc = "split" =>
        LET msg == entry.message
            colons == { k \in 1..Len(msg) : msg[k] = ":" }
            first == CHOOSE k \in colons : \A j \in colons : k <= j
            rest == IF first < Len(msg) /\ msg[first + 1] = Space THEN first + 2 ELSE first + 1
        IN  IF colons # {} /\ first > 1
            THEN split = [some |-> TRUE, component |-> SubSeq(msg, 1, first - 1),
                          message |-> SubSeq(msg, rest, Len(msg))]
            ELSE split = [some |-> FALSE, component |-> <<>>, message |-> msg]

\* C10 (as claimed): the year a Short line gets and the date a Simple line gets are
\* those of the current moment in the override zone when there is an override, and in
\* the ambient zone when there is none.
C10_InferredDate ==
    HasTimestamp =>
        /\ via = 2 =>
              WallClock(entry.timestamp).date[1] = Shift(nowUtc, ChosenZone(offset)).date[1]
        /\ via = 3 =>
              WallClock(entry.timestamp).date = Shift(nowUtc, ChosenZone(offset)).date

-----------------------------------------------------------------------------
(* C11..C13: the conversions of a Timestamp, the Common-Alt layout, the override *)

\* the absolute instant a date-time denotes: its UTC date and second of the day
Instant(dt) == [date |-> dt.date, secs |-> dt.secs]

\* C11: whenever utc_timestamp or local_timestamp is called on an entry with a
\* timestamp of any shape, the call leaves the entry as it was, and to_utc and to_local
\* of the stored Timestamp denote the instant of the stored value (hence the same
\* instant as each other): to_utc reads zero offset, to_local of a Utc or Fixed value
\* reads the ambient offset, to_utc of a Utc value and to_local of a Local value are
\* the stored value itself, offset included.
C11_ConversionsKeepInstant ==
    [][ (pc' \in {"utc", "local"} /\ entry.timestamp # NoTimestamp) =>
          /\ entry' = entry
          /\ stamp'.some
          /\ stamp'.dt = (IF pc' = "utc" THEN to_utc(entry.timestamp)
                                         ELSE to_local(entry.timestamp))
          /\ Instant(to_utc(entry.timestamp)) = Instant(entry.timestamp)
          /\ Instant(to_local(entry.timestamp)) = Instant(entry.timestamp)
          /\ to_utc(entry.timestamp).kind = "Utc" /\ to_utc(entry.timestamp).off = 0
          /\ to_local(entry.timestamp).kind = "Local"
          /\ WallClock(to_utc(entry.timestamp)) = Instant(entry.timestamp)
          /\ WallClock(to_local(entry.timestamp))
                = Shift(Instant(entry.timestamp), to_local(entry.timestamp).off)
          /\ entry.timestamp.kind = "Utc" => to_utc(entry.timestamp) = entry.timestamp
          /\ entry.timestamp.kind = "Local" => to_local(entry.timestamp) = entry.timestamp
          /\ entry.timestamp.kind # "Local" => to_local(entry.timestamp).off = ambient
    ]_vars

\* C11's case: a Fixed timestamp whose wall-clock date is not the UTC date of its
\* instant, converted to UTC
C11_Witness ==
    /\ pc = "utc"
    /\ stamp.some
    /\ entry.timestamp.kind = "Fixed"
    /\ WallClock(entry.timestamp).date # entry.timestamp.date
    /\ Instant(stamp.dt) = Instant(entry.timestamp)

\* a line of the Common-Alt layout whose fields are a real date and time of day
CommonAltValid(bytes) ==
    /\ Matches(5, bytes)
    /\ RealDate(Fields(5, bytes, <<0, 0, 0>>))
    /\ RealTime(Fields(5, bytes, <<0, 0, 0>>))

\* C12 (as claimed): every line of the Common-Alt layout with valid fields, with or
\* without weekday and with one or more spaces after the month, gets a timestamp whose
\* year is the year written in the text, and its message is what follows the year and
\* one tab or space; the year token is not left at the start of the message.
C12_CommonAltNotShadowed ==
    (pc # "ready" /\ CommonAltValid(line)) =>
        /\ entry.status = "entry"
        /\ entry.timestamp # NoTimestamp
        /\ WallClock(entry.timestamp).date[1] = Num(Captures(COMMON_ALT_LOG_RE, line).caps[6])
        /\ entry.message = from_utf8_lossy(Captures(COMMON_ALT_LOG_RE, line).caps[7])

\* the outcome r of parse_log_entry on the line without an override agrees with the
\* outcome of the call that was made: both return or both panic, both with or both
\* without a timestamp, through the same attempt, with the same message, and with the
\* same timestamp when the Common or the Engine-style pattern resolved the line
AgreesWith(r) ==
    /\ unwrap_or_message(r.out, line).status = entry.status
    /\ (unwrap_or_message(r.out, line).timestamp = NoTimestamp)
           <=> (entry.timestamp = NoTimestamp)
    /\ r.via = via
    /\ unwrap_or_message(r.out, line).message = entry.message
    /\ via \in {4, 7} => unwrap_or_message(r.out, line).timestamp = entry.timestamp

\* C13: for every line and every override, the outcome of the parse call under the
\* override agrees with the outcome of the call without an override on whether there
\* is a timestamp, on the pattern that resolved the line and on the message, and for
\* lines resolved by pattern 4 or pattern 7 on the timestamp as well.  Each of these
\* is an equality, so the outcomes under any two overrides agree in the same way.
C13_OverrideOnlyShiftsZonelessTimestamps ==
    (pc = "parsed" /\ offset.some) => AgreesWith(parse_log_entry(line, NoOffset))

\* C13's case: a zone-less line parsed under an override, whose timestamp is another
\* instant than without the override while the message is the same
C13_Witness ==
    /\ HasTimestamp
    /\ offset.some
    /\ via \in {1, 2, 3, 5, 6}
    /\ Instant(entry.timestamp) # Instant(LogEntryOf(line, NoOffset).timestamp)
    /\ entry.message = LogEntryOf(line, NoOffset).message

=============================================================================
